---- MODULE Spec2Model ----
(***************************************************************************)
(* Model of main.py: a script that loads "CSV Data File.csv" with          *)
(* read_csv_exception, assembles three charts with plot_intensities and    *)
(* displays them with one plt.show().                                      *)
(*                                                                         *)
(* Numbers.  A float is modelled as an exact fraction <<n, d>> in lowest   *)
(* terms with d > 0; NaN (what an empty cell parses to) is <<0, 0>> and     *)
(* propagates through the arithmetic as it does in pandas.  Rounding of     *)
(* binary floating point is not modelled.                                  *)
(***************************************************************************)
EXTENDS Integers, Sequences, FiniteSets, TLC

VARIABLES pc, fs, data_df, args, figures, stdout, exitStatus, uncaught,
          showCalls, displayed

vars == <<pc, fs, data_df, args, figures, stdout, exitStatus, uncaught,
          showCalls, displayed>>

(***************************************************************************)
(* Bounds of the model.                                                    *)
(***************************************************************************)
\* Largest number of physical rows of the input file, header row included.
MaxRows == 4
\* Tables of one shape differ by a seed in 0..MaxSeed.
MaxSeed == 1

(***************************************************************************)
(* Arithmetic on fractions.                                                *)
(***************************************************************************)
Abs(n) == IF n < 0 THEN -n ELSE n

RECURSIVE GCD(_, _)
GCD(a, b) == IF b = 0 THEN a ELSE GCD(b, a % b)

Frac(n, d) ==
    LET g == GCD(Abs(n), Abs(d))
        s == IF d < 0 THEN -1 ELSE 1
    IN  <<(s * n) \div g, (s * d) \div g>>

NaN == <<0, 0>>
Zero == <<0, 1>>
IsNaN(a) == a[2] = 0

FMul(a, b) == IF IsNaN(a) \/ IsNaN(b) THEN NaN ELSE Frac(a[1] * b[1], a[2] * b[2])
\* The divisors of the program are the area and the constants 4 and 12: never 0.
FDiv(a, b) == IF IsNaN(a) \/ IsNaN(b) THEN NaN ELSE Frac(a[1] * b[2], a[2] * b[1])
FSub(a, b) ==
    IF IsNaN(a) \/ IsNaN(b) THEN NaN
    ELSE Frac(a[1] * b[2] - b[1] * a[2], a[2] * b[2])
Whole(n) == <<n, 1>>
\* int(x) of a non-negative float
Trunc(a) == a[1] \div a[2]

RECURSIVE Pow10(_)
Pow10(e) == IF e = 0 THEN 1 ELSE 10 * Pow10(e - 1)

(***************************************************************************)
(* Cells of the file.  A cell is text of one of three kinds: a decimal     *)
(* literal with mantissa m and e digits after the point ("0.50" is m = 50, *)
(* e = 2), an empty cell, or other text (a column name, a unit).           *)
(***************************************************************************)
Dec(m, e) == [k |-> "num", m |-> m, e |-> e]
Text == [k |-> "text", m |-> 0, e |-> 0]
Empty == [k |-> "empty", m |-> 0, e |-> 0]

\* float(cell) of one cell that is not other text
ParseCell(c) == IF c.k = "num" THEN Frac(c.m, Pow10(c.e)) ELSE NaN

\* Faulty variant of to_numeric_raises: errors='coerce', text becomes NaN and nothing raises.
to_numeric_coerces(series) == FALSE

\* pd.to_numeric(series) with errors='raise': whether it raises ValueError
to_numeric_raises(series) == \E i \in 1..Len(series) : series[i].k = "text"
\* pd.to_numeric(series) when it does not raise
to_numeric(series) == [i \in 1..Len(series) |-> ParseCell(series[i])]

(***************************************************************************)
(* The file system holds the input file or not.  The file is a sequence of *)
(* physical rows, each a sequence of cells; column c of the program        *)
(* (0-based) is element c + 1 of a row.                                    *)
(***************************************************************************)
Missing == [exists |-> FALSE, rows |-> <<>>]
FileOf(rows) == [exists |-> TRUE, rows |-> rows]

\* pd.read_csv(path): what it raises, "none" when it returns
read_csv_raises(file) ==
    IF ~file.exists THEN "FileNotFoundError"
    ELSE IF Len(file.rows) = 0 THEN "EmptyDataError"
    ELSE "none"

\* pd.read_csv(path) with the default header=0: the first physical row gives
\* the column names, the rows after it are the frame's rows 0, 1, ...
read_csv(file) ==
    [ncols |-> Len(file.rows[1]), rows |-> Tail(file.rows)]

NoFrame == [ncols |-> 0, rows |-> <<>>]

\* df.iloc[:, c]: raises IndexError when c is not a column of the frame
iloc_raises(df, c) == c >= df.ncols
iloc(df, c) == [i \in 1..Len(df.rows) |-> df.rows[i][c + 1]]

\* Faulty variant of from_1: the slice is forgotten and the series starts at its row 0.
from_0(series) == series

\* series[1:]
from_1(series) == IF Len(series) = 0 THEN <<>> ELSE Tail(series)

(***************************************************************************)
(* plot_intensities                                                        *)
(***************************************************************************)
n_colours == 12
\* tab20 is a ListedColormap of 20 colours
tab20_N == 20

\* cmap(x) of a float x: the palette index int(x * N), clipped to 0..N-1
cmap(x) ==
    LET i == Trunc(FMul(x, Whole(tab20_N)))
    IN  IF i > tab20_N - 1 THEN tab20_N - 1 ELSE i

\* colour = cmap((key / 4) / n_colours)
Colour(key) == cmap(FDiv(FDiv(Whole(key), Whole(4)), Whole(n_colours)))

\* Faulty variant of ColourOf: the colour follows the rank of the entry in the plotted map.
ColourOfByRank(intensities, i) == cmap(FDiv(Whole(i - 1), Whole(n_colours)))

\* the colour of the i-th entry of the loop over intensities.items()
ColourOf(intensities, i) == Colour(intensities[i].key)

\* voltage_vals = pd.to_numeric(df.iloc[:, key][1:])
voltage_cells(df, key) == from_1(iloc(df, key))
voltage_vals(df, key) == to_numeric(voltage_cells(df, key))

\* amps to milliamps: ... * 1000
milliamps(a) == FMul(a, Whole(1000))

\* current_vals = pd.to_numeric(df.iloc[:, (key + 1)][1:]) * 1000
current_cells(df, key) == from_1(iloc(df, key + 1))
current_vals(df, key) ==
    LET a == to_numeric(current_cells(df, key))
    IN  [i \in 1..Len(a) |-> milliamps(a[i])]

\* Faulty variant of density: the current is multiplied by the area.
density_times_area(c, area) == FMul(c, area)

\* current density of one row: current (mA) / area
density(c, area) == FDiv(c, area)

\* current_density_vals = current_vals / area
current_density_vals(df, key, area) ==
    LET c == current_vals(df, key)
    IN  [i \in 1..Len(c) |-> density(c[i], area)]

\* power of one row: voltage (V) * current (mA)
power_mW(v, c) == FMul(v, c)

\* power_vals = voltage_vals * current_vals
power_vals(df, key) ==
    LET v == voltage_vals(df, key)
        c == current_vals(df, key)
    IN  [i \in 1..Len(v) |-> power_mW(v[i], c[i])]

\* Faulty variant of y_vals: the power is computed from the current density.
y_vals_from_density(df, key, area, power) ==
    LET v == voltage_vals(df, key)
        d == current_density_vals(df, key, area)
    IN  IF power THEN [i \in 1..Len(v) |-> power_mW(v[i], d[i])] ELSE d

\* The y-values handed to plt.plot for one curve.
y_vals(df, key, area, power) ==
    IF power THEN power_vals(df, key) ELSE current_density_vals(df, key, area)

\* What the body of the loop raises for one key, in the order of its statements.
curve_raises(df, key) ==
    IF iloc_raises(df, key) THEN "IndexError"
    ELSE IF to_numeric_raises(voltage_cells(df, key)) THEN "ValueError"
    ELSE IF iloc_raises(df, key + 1) THEN "IndexError"
    ELSE IF to_numeric_raises(current_cells(df, key)) THEN "ValueError"
    ELSE "none"

\* One line drawn by the loop.
Curve(df, area, intensities, i, power) ==
    LET key == intensities[i].key
    IN  [key    |-> key,
         label  |-> intensities[i].label,
         colour |-> ColourOf(intensities, i),
         x      |-> voltage_vals(df, key),
         y      |-> y_vals(df, key, area, power)]

\* Index of the first entry of the map whose curve raises, 0 when none does.
FirstRaise(df, intensities) ==
    LET bad == {i \in 1..Len(intensities) : curve_raises(df, intensities[i].key) # "none"}
    IN  IF bad = {} THEN 0 ELSE CHOOSE i \in bad : \A j \in bad : i <= j

\* if MPP: None and the empty map are both false
None == [given |-> FALSE, items |-> <<>>]
MapOf(items) == [given |-> TRUE, items |-> items]
Truthy(MPP) == MPP.given /\ Len(MPP.items) > 0

\* Faulty variant of MPP_y: the current density of the marker is current * area.
MPP_y_times_area(item, area, power) ==
    IF power THEN FMul(item.I, item.V) ELSE FMul(item.I, area)

\* MPP_y of one item [V, I] of the map
MPP_y(item, area, power) ==
    IF power THEN FMul(item.I, item.V) ELSE FDiv(item.I, area)

\* Faulty variant of offset: the offset of the JV plot is used in both modes.
offset_of_JV(power) == Whole(3)

\* offset of the text below the marker
offset(power) == IF power THEN Frac(15, 100) ELSE Whole(3)

\* What the body of the loop over MPP.items() draws for one item.
Overlay(item, area, power) ==
    LET y == MPP_y(item, area, power)
    IN  [pct    |-> item.pct,
         marker |-> <<item.V, y>>,
         hline  |-> << <<Zero, y>>, <<item.V, y>> >>,
         vline  |-> << <<item.V, Zero>>, <<item.V, y>> >>,
         text   |-> [at |-> <<item.V, FSub(y, offset(power))>>,
                     s  |-> [pre |-> "MPP ", pct |-> item.pct, post |-> "%"]]]

Overlays(MPP, area, power) ==
    IF Truthy(MPP)
    THEN [i \in 1..Len(MPP.items) |-> Overlay(MPP.items[i], area, power)]
    ELSE <<>>

Title(power) ==
    IF power
    THEN "Power-Voltage plot of Light Intensities of Perovskite Solar Cell"
    ELSE "JV curve of Light Intensities of a Perovskite Solar Cell"

YLabel(power) == IF power THEN "Power / mW" ELSE "Current Density / mAcm$^{-2}$"

\* plot_intensities(df, area, intensities, power, MPP): the figure it leaves
\* behind and what it raises.  When the curve of an entry raises, the figure
\* made by plt.subplots() holds the lines drawn before it and nothing else.
plot_intensities(df, area, intensities, power, MPP) ==
    LET f == FirstRaise(df, intensities)
        n == IF f = 0 THEN Len(intensities) ELSE f - 1
        curves == [i \in 1..n |-> Curve(df, area, intensities, i, power)]
    IN  IF f = 0
        THEN [raised |-> "none",
              fig |-> [power    |-> power,
                       curves   |-> curves,
                       title    |-> Title(power),
                       ylabel   |-> YLabel(power),
                       mpp      |-> Overlays(MPP, area, power),
                       legend   |-> [i \in 1..n |-> curves[i].label],
                       complete |-> TRUE]]
        ELSE [raised |-> curve_raises(df, intensities[f].key),
              fig |-> [power    |-> power,
                       curves   |-> curves,
                       title    |-> "",
                       ylabel   |-> "",
                       mpp      |-> <<>>,
                       legend   |-> <<>>,
                       complete |-> FALSE]]

(***************************************************************************)
(* read_csv_exception                                                      *)
(***************************************************************************)
CsvPath == "CSV Data File.csv"
CantFind(path) == [text |-> "Can't find:", path |-> path]

\* sys.exit() with no argument raises SystemExit(None): exit status 0
sys_exit_status == 0
\* the interpreter's exit status after an uncaught exception
uncaught_status == 1
\* the interpreter's exit status when the script runs to its end
normal_status == 0

\* Faulty variant of read_csv_exception: no except clause, FileNotFoundError leaves uncaught.
read_csv_no_except(file, path) ==
    LET e == read_csv_raises(file)
    IN  IF e = "none"
        THEN [how |-> "return", df |-> read_csv(file), out |-> <<>>, raised |-> "none"]
        ELSE [how |-> "raise", df |-> NoFrame, out |-> <<>>, raised |-> e]

\* read_csv_exception(path): how it leaves (return, exit, raise), the frame
\* it returns, what it prints and the exception that leaves it.
read_csv_exception(file, path) ==
    LET e == read_csv_raises(file)
    IN  IF e = "none"
        THEN [how |-> "return", df |-> read_csv(file), out |-> <<>>, raised |-> "none"]
        ELSE IF e = "FileNotFoundError"
        THEN [how |-> "exit", df |-> NoFrame, out |-> <<CantFind(path)>>,
              raised |-> "SystemExit"]
        ELSE [how |-> "raise", df |-> NoFrame, out |-> <<>>, raised |-> e]

(***************************************************************************)
(* Module-level data of the script.                                        *)
(***************************************************************************)
Label(pct) == [text |-> "Light intensity ", pct |-> pct, post |-> "%"]
Entry(key, pct) == [key |-> key, label |-> Label(pct)]

intensity_all ==
    << Entry(0, 1),   Entry(4, 3),   Entry(8, 10),  Entry(12, 16),
       Entry(16, 25), Entry(20, 32), Entry(24, 40), Entry(28, 50),
       Entry(32, 63), Entry(36, 79), Entry(40, 93), Entry(44, 100) >>

intensity_10_50_100 == << Entry(8, 10), Entry(28, 50), Entry(44, 100) >>

Point(pct, V, I) == [pct |-> pct, V |-> V, I |-> I]

max_power_points ==
    MapOf(<< Point(10, Frac(85, 100), Frac(-11, 100)),
             Point(50, Frac(89, 100), Frac(-51, 100)),
             Point(100, Frac(89, 100), Frac(-97, 100)) >>)

solar_cell_area == Frac(45, 1000)

Call(area, intensities, power, MPP) ==
    [area |-> area, intensities |-> intensities, power |-> power, MPP |-> MPP]

NoCall == Call(Zero, <<>>, FALSE, None)

\* the three calls of the script, in the order of its lines
Call1 == Call(solar_cell_area, intensity_all, FALSE, None)
\* Faulty variant of Call2: the second call already asks for the power plot.
Call2_power == Call(solar_cell_area, intensity_10_50_100, TRUE, max_power_points)
Call2 == Call(solar_cell_area, intensity_10_50_100, FALSE, max_power_points)
Call3 == Call(solar_cell_area, intensity_10_50_100, TRUE, max_power_points)

(***************************************************************************)
(* The input files of the model.  The first physical row holds the column  *)
(* names.  The cells below it are decimal literals that depend on row,     *)
(* column and seed; with units the second physical row holds text (units   *)
(* under the names); one cell may be replaced by text or an empty cell.    *)
(***************************************************************************)
Decimals ==
    << Dec(5, 1), Dec(1, 3), Dec(89, 2), Dec(-51, 5), Dec(50, 2), Dec(2, 3), Dec(0, 0) >>

CellAt(r, c, seed) == Decimals[((3 * r + 5 * c + seed) % Len(Decimals)) + 1]

NoBad == [r |-> 0, c |-> 0, cell |-> Text]

Row(r, ncols, seed, units, bad) ==
    [j \in 1..ncols |->
        IF r = 1 THEN Text
        ELSE IF bad.r = r /\ bad.c = j - 1 THEN bad.cell
        ELSE IF units /\ r = 2 THEN Text
        ELSE CellAt(r, j - 1, seed)]

Table(nrows, ncols, seed, units, bad) ==
    FileOf([r \in 1..nrows |-> Row(r, ncols, seed, units, bad)])

\* widths: 46 and 48 hold every column the script reads; 44 lacks column 44;
\* 29 holds column 28 and lacks column 29
Widths == {29, 44, 46, 48}
\* columns of the replaced cell: read as voltage (8), as current (9, 45), never read (2)
BadCols == {2, 8, 9, 45}

Bads(nrows, cols) ==
    {NoBad} \cup {[r |-> r, c |-> c, cell |-> x] :
                     r \in 2..nrows, c \in cols, x \in {Text, Empty}}

Tables(widths, cols) ==
    UNION {{Table(nrows, ncols, seed, units, bad) :
                ncols \in widths, seed \in 0..MaxSeed, units \in BOOLEAN,
                bad \in Bads(nrows, cols)} : nrows \in 1..MaxRows}

\* an existing file with no row at all, a missing file, and the tables
Files == {Missing, FileOf(<<>>)} \cup Tables(Widths, BadCols)

(***************************************************************************)
(* The script: one step per module-level statement that acts.              *)
(***************************************************************************)
Init ==
    /\ pc = "load"
    /\ fs \in Files
    /\ data_df = NoFrame
    /\ args = NoCall
    /\ figures = <<>>
    /\ stdout = <<>>
    /\ exitStatus = <<>>
    /\ uncaught = "none"
    /\ showCalls = 0
    /\ displayed = {}

\* data_df = read_csv_exception("CSV Data File.csv")
Load ==
    /\ pc = "load"
    /\ LET r == read_csv_exception(fs, CsvPath)
       IN  /\ data_df' = r.df
           /\ stdout' = stdout \o r.out
           /\ pc' = IF r.how = "return" THEN "plot1"
                    ELSE IF r.how = "exit" THEN "exited" ELSE "crashed"
           /\ exitStatus' = IF r.how = "return" THEN <<>>
                            ELSE IF r.how = "exit" THEN <<sys_exit_status>>
                            ELSE <<uncaught_status>>
           /\ uncaught' = IF r.how = "raise" THEN r.raised ELSE "none"
    /\ UNCHANGED <<fs, args, figures, showCalls, displayed>>

\* One module-level call of plot_intensities: the figure is left behind; an
\* exception leaves the script uncaught.
Plot(here, call, next) ==
    /\ pc = here
    /\ LET r == plot_intensities(data_df, call.area, call.intensities, call.power, call.MPP)
       IN  /\ figures' = Append(figures, r.fig)
           /\ pc' = IF r.raised = "none" THEN next ELSE "crashed"
           /\ uncaught' = r.raised
           /\ exitStatus' = IF r.raised = "none" THEN <<>> ELSE <<uncaught_status>>
    /\ args' = call
    /\ UNCHANGED <<fs, data_df, stdout, showCalls, displayed>>

Plot1 == Plot("plot1", Call1, "plot2")
Plot2 == Plot("plot2", Call2, "plot3")
Plot3 == Plot("plot3", Call3, "show")

\* plt.show(): every figure is displayed and the call blocks
Show ==
    /\ pc = "show"
    /\ pc' = "blocked"
    /\ showCalls' = showCalls + 1
    /\ displayed' = 1..Len(figures)
    /\ UNCHANGED <<fs, data_df, args, figures, stdout, exitStatus, uncaught>>

\* the user closes the windows: plt.show() returns and the script ends
Close ==
    /\ pc = "blocked"
    /\ pc' = "done"
    /\ displayed' = {}
    /\ exitStatus' = <<normal_status>>
    /\ UNCHANGED <<fs, data_df, args, figures, stdout, uncaught, showCalls>>

Next == Load \/ Plot1 \/ Plot2 \/ Plot3 \/ Show \/ Close

Spec == Init /\ [][Next]_vars

(***************************************************************************)
(* plot_intensities as a function: the arguments are drawn from bounded    *)
(* sets and one call is made.                                              *)
(***************************************************************************)
Areas == {solar_cell_area, Frac(9, 100)}

IntensityMaps ==
    { intensity_all,
      intensity_10_50_100,
      << Entry(44, 100), Entry(28, 50), Entry(8, 10) >> }

MPPs ==
    { None,
      MapOf(<<>>),
      max_power_points,
      MapOf(<< Point(10, Frac(1, 2), Frac(2, 1)) >>) }

\* the tables of the calls: all columns present or column 29 lacking, the
\* replaced cell in a current column
FnTables == Tables({29, 46}, {9})

FnInit ==
    /\ pc = "call"
    /\ fs \in FnTables
    /\ data_df = read_csv(fs)
    /\ args \in {Call(a, m, p, M) : a \in Areas, m \in IntensityMaps,
                                    p \in BOOLEAN, M \in MPPs}
    /\ figures = <<>>
    /\ stdout = <<>>
    /\ exitStatus = <<>>
    /\ uncaught = "none"
    /\ showCalls = 0
    /\ displayed = {}

FnCall ==
    /\ pc = "call"
    /\ LET r == plot_intensities(data_df, args.area, args.intensities, args.power, args.MPP)
       IN  /\ figures' = <<r.fig>>
           /\ pc' = IF r.raised = "none" THEN "returned" ELSE "raised"
           /\ uncaught' = r.raised
    /\ UNCHANGED <<fs, data_df, args, stdout, exitStatus, showCalls, displayed>>

FnNext == FnCall

SpecFn == FnInit /\ [][FnNext]_vars

(***************************************************************************)
(* Properties of the script (Spec).                                        *)
(***************************************************************************)
ScriptCalls == <<Call1, Call2, Call3>>

\* the cell of physical row r (from 1) and column c (from 0) of the file
PhysCell(r, c) == fs.rows[r][c + 1]

\* every cell below the first physical row is a decimal literal
ValidTable ==
    /\ fs.exists
    /\ Len(fs.rows) >= 1
    /\ \A r \in 2..Len(fs.rows) : \A j \in 1..Len(fs.rows[r]) : fs.rows[r][j].k = "num"

\* the y-value of the row holding voltage V (volts) and current I (amps)
RowY(V, I, area, power) ==
    IF power THEN FMul(V, FMul(I, Whole(1000))) ELSE FDiv(FMul(I, Whole(1000)), area)

\* Curve n of figure j of the script plots the physical rows first, first + 1, ...
\* to the last row of the file, voltages from column key, currents from key + 1.
PlotsRowsFrom(first, j, n) ==
    LET c == figures[j].curves[n]
        last == Len(fs.rows)
    IN  /\ c.key = ScriptCalls[j].intensities[n].key
        /\ Len(c.x) = (IF last >= first THEN last - first + 1 ELSE 0)
        /\ Len(c.y) = Len(c.x)
        /\ \A i \in 1..Len(c.x) :
              LET V == ParseCell(PhysCell(i + first - 1, c.key))
                  I == ParseCell(PhysCell(i + first - 1, c.key + 1))
              IN  /\ c.x[i] = V
                  /\ c.y[i] = RowY(V, I, solar_cell_area, figures[j].power)

\* C1: when the input file does not exist, the run prints the message naming
\* the path and the process ends with a non-zero exit status, no exception
\* reaching the caller.
C1_MissingFileExitsNonZero ==
    (~fs.exists /\ pc # "load") =>
        /\ pc = "exited"
        /\ stdout = <<CantFind(CsvPath)>>
        /\ uncaught = "none"
        /\ exitStatus # <<>>
        /\ exitStatus[1] # 0

C3_MissingFileStopsBeforePlotting ==
    (~fs.exists /\ pc # "load") =>
        /\ pc = "exited"
        /\ stdout = <<CantFind(CsvPath)>>
        /\ data_df = NoFrame
        /\ args = NoCall
        /\ figures = <<>>
        /\ showCalls = 0
        /\ displayed = {}
        /\ uncaught = "none"

C3_Witness == ~fs.exists /\ pc = "exited" /\ Len(stdout) = 1

\* the keys of the curves of a figure, in plotting order
Keys(fig) == [n \in 1..Len(fig.curves) |-> fig.curves[n].key]
MapKeys(m) == [n \in 1..Len(m) |-> m[n].key]
Pcts(fig) == [n \in 1..Len(fig.mpp) |-> fig.mpp[n].pct]

\* C7: the charts are assembled in the order full JV chart without MPP, JV
\* chart of the 10/50/100% subset with MPP, power chart of the subset with
\* MPP; display happens once, after all three are finished, never before.
C7_ThreeChartsThenOneShow ==
    /\ Len(figures) <= 3
    /\ showCalls <= 1
    /\ \A j \in 1..Len(figures) :
          /\ figures[j].power = (j = 3)
          /\ figures[j].complete =>
                /\ Keys(figures[j]) =
                      (IF j = 1 THEN MapKeys(intensity_all) ELSE MapKeys(intensity_10_50_100))
                /\ Pcts(figures[j]) = (IF j = 1 THEN <<>> ELSE <<10, 50, 100>>)
                /\ figures[j].title = Title(j = 3)
    /\ (displayed # {} \/ showCalls > 0) =>
          /\ Len(figures) = 3
          /\ \A j \in 1..3 : figures[j].complete
          /\ pc \in {"blocked", "done"}
    /\ pc = "blocked" => (displayed = {1, 2, 3} /\ showCalls = 1)
    /\ pc = "done" => (showCalls = 1 /\ exitStatus = <<0>>)
    /\ pc \in {"plot2", "plot3", "show"} =>
          /\ Len(figures) = (IF pc = "plot2" THEN 1 ELSE IF pc = "plot3" THEN 2 ELSE 3)
          /\ displayed = {}

C7_Witness == pc = "blocked" /\ displayed = {1, 2, 3} /\ Len(figures) = 3

\* the key of the map has a cause of failure in the file: column key or
\* key + 1 is beyond the table's columns, or one of them holds text below the
\* second physical row
FailsOn(key) ==
    \/ key + 1 >= Len(fs.rows[1])
    \/ \E r \in 3..Len(fs.rows) :
          PhysCell(r, key).k = "text" \/ PhysCell(r, key + 1).k = "text"

\* C9: a failure other than the missing file is not caught: the run stops at
\* the failing curve with the exception uncaught, nothing is displayed then
\* or later, and a table with a cause of failure never gets past the chart
\* that reads it.
C9_FailureAbortsWithoutDisplay ==
    /\ uncaught # "none" =>
          /\ pc = "crashed"
          /\ showCalls = 0
          /\ displayed = {}
          /\ exitStatus = <<1>>
    /\ pc = "crashed" => uncaught \in {"EmptyDataError", "IndexError", "ValueError"}
    /\ (pc = "crashed" /\ figures # <<>>) =>
          LET j == Len(figures)
              f == figures[j]
              m == ScriptCalls[j].intensities
              k == Len(f.curves) + 1
          IN  /\ ~f.complete
              /\ f.mpp = <<>>
              /\ k <= Len(m)
              /\ FailsOn(m[k].key)
              /\ \A n \in 1..(k - 1) : ~FailsOn(m[n].key)
    /\ pc \in {"plot2", "plot3", "show", "blocked", "done"} =>
          \A n \in 1..Len(intensity_all) : ~FailsOn(intensity_all[n].key)
    /\ (displayed # {} \/ showCalls > 0) =>
          (uncaught = "none" /\ \A j \in 1..Len(figures) : figures[j].complete)

\* the third curve of the first chart fails on a text cell after two curves
\* were drawn
C9_Witness ==
    /\ pc = "crashed"
    /\ uncaught = "ValueError"
    /\ Len(figures) = 1
    /\ Len(figures[1].curves) = 2
    /\ showCalls = 0

(***************************************************************************)
(* Properties of one call of plot_intensities (SpecFn).                    *)
(***************************************************************************)
\* the parsed cell of row i (from 0) and column c (from 0) of the frame
FrameVal(i, c) == ParseCell(data_df.rows[i + 1][c + 1])

\* the points of the returned figure: curve n, point i
Points ==
    {<<n, i>> \in (1..Len(args.intensities)) \X (1..Len(data_df.rows)) :
        /\ figures # <<>>
        /\ n <= Len(figures[1].curves)
        /\ i <= Len(figures[1].curves[n].x)}

\* C4: in JV mode every plotted point has y = current_A * 1000 / area with
\* current_A the cell of column key + 1 in the row of the point's voltage;
\* 0.001 A with area 0.045 gives 22.22; x and y have equal length.
C4_JVPointsAreCurrentDensity ==
    (pc = "returned" /\ ~args.power) =>
        /\ \A n \in 1..Len(figures[1].curves) :
              /\ Len(figures[1].curves[n].x) = Len(figures[1].curves[n].y)
              /\ Len(figures[1].curves[n].x) = Len(from_1(data_df.rows))
        /\ \A p \in Points :
              LET c == figures[1].curves[p[1]]
                  V == FrameVal(p[2], c.key)
                  I == FrameVal(p[2], c.key + 1)
              IN  /\ c.key = args.intensities[p[1]].key
                  /\ c.x[p[2]] = V
                  /\ FMul(c.y[p[2]], args.area) = FMul(I, Whole(1000))
                  /\ (I = Frac(1, 1000) /\ args.area = Frac(45, 1000)) =>
                        Trunc(FMul(c.y[p[2]], Whole(100))) = 2222

\* a JV point of a cell holding 0.001 A, plotted at 200/9 = 22.22...
C4_Witness ==
    /\ pc = "returned"
    /\ ~args.power
    /\ args.area = Frac(45, 1000)
    /\ \E p \in Points :
          /\ FrameVal(p[2], figures[1].curves[p[1]].key + 1) = Frac(1, 1000)
          /\ figures[1].curves[p[1]].y[p[2]] = Frac(200, 9)

\* C5: in power mode every plotted point has y = voltage_V * (current_A *
\* 1000), row by row, and the curves are those of the same call with any
\* other area.
C5_PowerIgnoresArea ==
    (pc = "returned" /\ args.power) =>
        /\ \A p \in Points :
              LET c == figures[1].curves[p[1]]
                  V == FrameVal(p[2], c.key)
                  I == FrameVal(p[2], c.key + 1)
              IN  /\ c.x[p[2]] = V
                  /\ c.y[p[2]] = FMul(V, FMul(I, Whole(1000)))
        /\ \A a \in Areas :
              plot_intensities(data_df, a, args.intensities, TRUE, args.MPP).fig.curves
                  = figures[1].curves

\* a power point of the row (0.5 V, 0.002 A), plotted at 1 mW
C5_Witness ==
    /\ pc = "returned"
    /\ args.power
    /\ \E p \in Points :
          /\ figures[1].curves[p[1]].x[p[2]] = Frac(1, 2)
          /\ FrameVal(p[2], figures[1].curves[p[1]].key + 1) = Frac(2, 1000)
          /\ figures[1].curves[p[1]].y[p[2]] = Whole(1)

\* the curves of the full 12-intensity JV plot of the same frame
FullPlotCurves ==
    plot_intensities(data_df, solar_cell_area, intensity_all, FALSE, None).fig.curves

\* C6: the colour of a curve is the palette position floor(20 * (key/4)/12)
\* of its column index, whatever the other curves, the order and the
\* options: keys 8, 28, 44 get the positions 3, 11, 18 they get in the full plot.
C6_ColourDependsOnKeyOnly ==
    figures # <<>> =>
        LET full == FullPlotCurves
        IN  \A n \in 1..Len(figures[1].curves) :
                LET c == figures[1].curves[n]
                IN  /\ c.colour = (20 * c.key) \div 48
                    /\ c.colour \in 0..19
                    /\ c.key = 8 => c.colour = 3
                    /\ c.key = 28 => c.colour = 11
                    /\ c.key = 44 => c.colour = 18
                    /\ \A m \in 1..Len(full) :
                          full[m].key = c.key => full[m].colour = c.colour

\* the subset plotted in reverse order, in power mode with MPP: key 44 comes
\* first and keeps position 18
C6_Witness ==
    /\ pc = "returned"
    /\ args.power
    /\ Truthy(args.MPP)
    /\ Len(figures[1].curves) = 3
    /\ Len(FullPlotCurves) = 12
    /\ figures[1].curves[1].key = 44
    /\ figures[1].curves[1].colour = 18
    /\ figures[1].curves[3].colour = 3

\* C8: with an MPP map, each entry percentage -> (V, I) gets a marker at
\* (V, y), y = I/area in JV mode and I*V in power mode, a horizontal guide
\* between (0, y) and (V, y), a vertical guide between (V, y) and (V, 0) and
\* the text "MPP {percentage}%" at (V, y - offset), offset 3 in JV mode and
\* 0.15 in power mode; with no map or an empty one only the curves are drawn.
C8_MPPOverlay ==
    pc = "returned" =>
        LET f == figures[1]
            items == args.MPP.items
        IN  /\ f.complete
            /\ Len(f.curves) = Len(args.intensities)
            /\ IF args.MPP.given /\ items # <<>>
               THEN /\ Len(f.mpp) = Len(items)
                    /\ \A i \in 1..Len(items) :
                          LET o == f.mpp[i]
                              V == items[i].V
                              y == o.marker[2]
                          IN  /\ o.marker[1] = V
                              /\ args.power => y = FMul(items[i].I, V)
                              /\ ~args.power => FMul(y, args.area) = items[i].I
                              /\ {o.hline[1], o.hline[2]} = {<<Zero, y>>, <<V, y>>}
                              /\ {o.vline[1], o.vline[2]} = {<<V, y>>, <<V, Zero>>}
                              /\ o.text.at[1] = V
                              /\ FSub(y, o.text.at[2]) =
                                    (IF args.power THEN Frac(15, 100) ELSE Whole(3))
                              /\ o.text.s = [pre |-> "MPP ", pct |-> items[i].pct, post |-> "%"]
               ELSE f.mpp = <<>>

\* the power plot with the script's map: the 50% marker at 0.89 V,
\* -0.51 * 0.89 = -0.4539, its text 0.15 below
C8_Witness ==
    /\ pc = "returned"
    /\ args.power
    /\ args.MPP = max_power_points
    /\ Len(figures[1].mpp) = 3
    /\ figures[1].mpp[2].marker = <<Frac(89, 100), Frac(-4539, 10000)>>
    /\ figures[1].mpp[2].text.at[2] = Frac(-6039, 10000)

\* the marker of every MPP entry lies where the curve conversion puts a data
\* row of voltage V and current amps(I), both on the conversion alone and on
\* every plotted point of such a row
MarkerMatchesRow(amps(_)) ==
    (pc = "returned" /\ Truthy(args.MPP)) =>
        \A i \in 1..Len(args.MPP.items) :
            LET it == args.MPP.items[i]
                y  == figures[1].mpp[i].marker[2]
                mA == milliamps(amps(it.I))
            IN  /\ y = (IF args.power THEN power_mW(it.V, mA) ELSE density(mA, args.area))
                /\ \A p \in Points :
                      LET c == figures[1].curves[p[1]]
                      IN  (FrameVal(p[2], c.key) = it.V
                              /\ FrameVal(p[2], c.key + 1) = amps(it.I))
                          => c.y[p[2]] = y

AsAmps(I) == I
FromMilliamps(I) == FDiv(I, Whole(1000))

\* C10 as stated: for an MPP entry (V, I) with I in amps, as the table's
\* cells are, the marker's y equals the y-value of a data row holding (V, I).
C10_MarkerMatchesRowInAmps == MarkerMatchesRow(AsAmps)

\* C10 amended: for an MPP entry (V, I) with I in milliamps, the marker's y
\* equals the y-value of a data row holding (V, I/1000 A), in both modes.
C10_MarkerMatchesRowInMilliamps == MarkerMatchesRow(FromMilliamps)

\* a JV plot whose MPP entry (0.5 V, 2 mA) sits on the plotted point of a
\* row holding (0.5 V, 0.002 A), at 2/0.045 = 44.44...
C10_Witness ==
    /\ pc = "returned"
    /\ ~args.power
    /\ args.area = Frac(45, 1000)
    /\ Truthy(args.MPP)
    /\ args.MPP.items[1].I = Whole(2)
    /\ figures[1].mpp[1].marker[2] = Frac(400, 9)
    /\ \E p \in Points :
          /\ figures[1].curves[p[1]].x[p[2]] = Frac(1, 2)
          /\ FrameVal(p[2], figures[1].curves[p[1]].key + 1) = Frac(2, 1000)
          /\ figures[1].curves[p[1]].y[p[2]] = figures[1].mpp[1].marker[2]

====
